---- MODULE Spec2Model ----
(***************************************************************************)
(* Transport layer of bighorn: the REST request scheduler (core/rest.ts)   *)
(* and the gateway Socket (core/socket.ts).                                *)
(***************************************************************************)
EXTENDS Integers, Sequences, FiniteSets, TLC

(***************************************************************************)
(* Bounds of the model.                                                    *)
(***************************************************************************)
MaxJobs == 3

\* Calls the caller makes on the Socket: start(), destroy(), reconnect()
MaxCalls == 2

\* Frames the gateway sends, over all sockets
MaxFrames == 1

\* The heartbeat timers run until this many intervals have elapsed
MaxBeats == 1

\* Calls of reconnect() and destroy() by a caller that only recovers
MaxRetryCalls == 4

\* Frames the gateway sends to a caller that starts once and listens
MaxGatewayFrames == 2

\* Calls of listen() that caller makes
MaxListens == 2

\* The presence() calls a caller makes
MaxPresences == 1

\* The requests of a burst: made back-to-back to one route
BurstJobs == 5

\* One step of the clock, in milliseconds (Date.now() is in ms, the reset
\* header in seconds).
TickMs == 1000

Null == "null"

\* A number that is undefined or null (no sequence number and no retry limit
\* is negative)
NoNumber == -1

(***************************************************************************)
(* REST scheduler: state                                                   *)
(***************************************************************************)
VARIABLES
    now,        \* Date.now()
    buckets,    \* Rest.buckets: bucket key -> BucketInfo, or NoBucket
    timers,     \* pending setTimeout(() => runBucket(key), delay) callbacks
    jobReq,     \* per request() call: the request made
    jobState,   \* per request() call: where its job is
    jobRes,     \* per request() call: the response fetch produced, if any
    promise,    \* per request() call: the promise request() returned
    startLog    \* per bucket key: job ids in the order job.fn() was called

restVars == <<buckets, timers, jobReq, jobState, jobRes, promise, startLog>>

(***************************************************************************)
(* Gateway Socket: state                                                   *)
(***************************************************************************)
VARIABLES
    settings,       \* Socket.settings: maxRetries, sessionStore present or not
    persisted,      \* what the sessionStore holds
    started,        \* Socket.started
    ws,             \* Socket._ws: a socket id, or 0 for null
    socks,          \* every WebSocket the instance has created
    heartbeat,      \* Socket._heartbeat: an interval id, or 0 for null
    intervals,      \* the setInterval timers that are running
    sessionId,      \* Socket._sessionId
    lastSequence,   \* Socket._lastSequence
    reconnecting,   \* Socket._reconnecting
    retries,        \* Socket._retries
    lastPing,       \* Socket._lastPing
    lastACK,        \* Socket._lastACK
    starts,         \* the start() calls made and where each one is
    destroys,       \* the destroy() calls made and where each one is
    reconns,        \* the reconnect() calls made and where each one is
    delivered,      \* the message events dispatched so far: socket and frame
    events,         \* Socket.events: event name -> handler, or Null
    listened,       \* the listen() calls made
    invoked,        \* the handler invocations made
    saved,          \* the sessionStore.save() calls made
    acked,          \* a HeartbeatAck frame was handled since _lastPing was set
    logged,         \* what log.warn and log.fail have printed
    presences,      \* the presence() calls made
    startTime       \* Client._start_time

socketVars ==
    <<settings, persisted, started, ws, socks, heartbeat, intervals, sessionId,
      lastSequence, reconnecting, retries, lastPing, lastACK, starts, destroys,
      reconns, delivered, events, listened, invoked, saved, acked, logged,
      presences, startTime>>

(***************************************************************************)
(* Dictionary: state                                                       *)
(***************************************************************************)
VARIABLES
    dictionary,     \* a Dictionary: its limit and the entries of the Map
    called          \* the last set() call made on it: key and value

dictVars == <<dictionary, called>>

vars == <<now, restVars, socketVars, dictVars>>

\* enum Method (the values used by the model)
Methods == {"GET", "POST"}

\* The requests callers make
Requests ==
    { [method |-> "GET",  route |-> "user",            args |-> "@me"],
      [method |-> "GET",  route |-> "user",            args |-> "u2"],
      [method |-> "GET",  route |-> "channelMessages", args |-> "c1"],
      [method |-> "POST", route |-> "channelMessages", args |-> "c1"] }

\* String.prototype.toUpperCase on the method names
ToUpperCase(s) ==
    CASE s = "get"  -> "GET"
      [] s = "post" -> "POST"
      [] OTHER      -> s

\* A key made of the route alone
getBucketKeyRoute(method, route) == <<"GET", route>>

getBucketKeyLiteral(method, route) == <<"method", "route">>

\* Rest.getBucketKey: `${ method.toUpperCase() } ${ route }`
getBucketKey(method, route) == <<ToUpperCase(method), route>>

BucketKeys == { getBucketKey(r.method, r.route) : r \in Requests }

NoBucket == [absent |-> TRUE]

\* A new bucket that has nothing left until the horizon
NewBucketThrottled ==
    [resetAt |-> 2000, remaining |-> 0, queue |-> <<>>, isRunning |-> FALSE]

\* The bucket queueRequest creates when buckets.get(key) is undefined
NewBucket == [resetAt |-> 0, remaining |-> 1, queue |-> <<>>, isRunning |-> FALSE]

\* parseInt / parseFloat on the header strings the model's server sends
parseInt(s) ==
    CASE s = "0" -> 0
      [] s = "1" -> 1
      [] s = "2" -> 2
      [] s = "5" -> 5

parseFloat(s) == parseInt(s)

\* The default, whatever the header says
CoalesceDefault(a, b) == b

\* a ?? b
Coalesce(a, b) == IF a = Null THEN b ELSE a

\* The rate-limit headers a response carries: X-RateLimit-Remaining and
\* X-RateLimit-Reset (epoch seconds), each possibly missing
RateHeaders ==
    { [remaining |-> Null, reset |-> Null],
      [remaining |-> "0",  reset |-> "2"],
      [remaining |-> "1",  reset |-> "2"] }

\* Status and body of a response
Outcomes ==
    { [status |-> 200, body |-> "data"],
      [status |-> 429, body |-> "garbage"] }

ResOkAlways(status) == TRUE

\* Response.ok
ResOk(status) == status >= 200 /\ status <= 299

\* res.json().catch( () => ({}) )
JsonOrEmpty(body) == IF body = "garbage" THEN "{}" ELSE body

Responses ==
    { [status |-> o.status, body |-> o.body,
       remaining |-> h.remaining, reset |-> h.reset] :
      o \in Outcomes, h \in RateHeaders }

\* The largest resetAt a response can set, in ms.  The scheduler only compares
\* the clock with resetAt, so all later instants behave alike and the model's
\* clock stops there.
Horizon ==
    LET at == { parseFloat(Coalesce(h.reset, "0")) * 1000 : h \in RateHeaders }
    IN CHOOSE m \in at : \A x \in at : x <= m

NoRes == [none |-> TRUE]

PendingPromise == [state |-> "pending", value |-> Null, calls |-> 0]

\* resolve(v) / reject(v) of a promise: only the first call settles it
Settle(p, st, v) ==
    IF p.state = "pending"
    THEN [state |-> st, value |-> v, calls |-> p.calls + 1]
    ELSE [p EXCEPT !.calls = p.calls + 1]

JobIds == 1..Len(jobReq)

KeyOf(j) == getBucketKey(jobReq[j].method, jobReq[j].route)

(***************************************************************************)
(* Dictionary                                                              *)
(***************************************************************************)

\* The entries callers store: a key and a value
DictEntries == {"a", "b", "c"} \X {"x", "y"}

\* constructor: limit && limit > 0 ? Math.round( limit ) : Infinity.  The
\* limit is given in quarters (6 is 1.5), NoNumber when it is undefined;
\* Infinity is a number no size reaches.
EffectiveLimit(limit) ==
    LET Infinity == Cardinality(DictEntries) + 1
    IN IF limit # NoNumber /\ limit # 0 /\ limit > 0
       THEN (limit + 2) \div 4
       ELSE Infinity

\* this.size
size(dict) == Cardinality({ k \in DOMAIN dict.map : dict.map[k] # Null })

\* new Dictionary( iterable, limit ): the Map constructor adds the items of
\* the iterable in order, at most EFFECTIVE_LIMIT of them when there is a
\* limit (count++ >= EFFECTIVE_LIMIT); limit is assigned afterwards
RECURSIVE Dictionary(_, _)
Dictionary(iterable, limit) ==
    IF iterable = <<>>
    THEN [limit |-> EffectiveLimit(limit),
          map |-> [k \in { e[1] : e \in DictEntries } |-> Null]]
    ELSE LET n == Len(iterable)
             rest == Dictionary(SubSeq(iterable, 1, n - 1), limit)
         IN IF n > EffectiveLimit(limit)
            THEN rest
            ELSE [rest EXCEPT !.map[iterable[n][1]] = iterable[n][2]]

\* set( key, value ): `if ( this.size >= this.limit )` warns and returns,
\* otherwise super.set( key, value )
set(dict, key, value) ==
    IF size(dict) >= dict.limit
    THEN dict
    ELSE [dict EXCEPT !.map[key] = value]

\* remaining()
dictRemaining(dict) == dict.limit - size(dict)

InitRestVars ==
    /\ now = 0
    /\ buckets = [k \in BucketKeys |-> NoBucket]
    /\ timers = {}
    /\ jobReq = <<>>
    /\ jobState = <<>>
    /\ jobRes = <<>>
    /\ promise = <<>>
    /\ startLog = [k \in BucketKeys |-> <<>>]
    /\ dictionary = Dictionary(<<>>, NoNumber)
    /\ called = <<>>

(***************************************************************************)
(* REST scheduler: operations                                              *)
(***************************************************************************)

ThrottledOffByOne(bucket, t) == bucket.remaining < 0 /\ t < bucket.resetAt

\* A test that never throttles
ThrottledNever(bucket, t) == FALSE

\* runBucket: bucket.remaining <= 0 && Date.now() < bucket.resetAt
Throttled(bucket, t) == bucket.remaining <= 0 /\ t < bucket.resetAt

Pop(queue) ==
    [job |-> queue[Len(queue)], rest |-> SubSeq(queue, 1, Len(queue) - 1)]

\* runBucket: bucket.queue.shift()
Shift(queue) == [job |-> Head(queue), rest |-> Tail(queue)]

ShouldRunAlways(bucket) == TRUE

\* queueRequest: if ( !bucket.isRunning ) this.runBucket( key )
ShouldRun(bucket) == ~bucket.isRunning

RunsAfterThen(outcome) == outcome = "fulfilled"

\* runBucket: job.fn().finally( () => this.runBucket( key ) ): the callback
\* runs whether fn() fulfilled or rejected
RunsAfter(outcome) == outcome \in {"fulfilled", "rejected"}

\* Rest.runBucket(key), on the bucket table B, job states J and timers T
runBucket(key, B, J, T) ==
    LET bucket == B[key] IN
    IF bucket = NoBucket
    THEN /\ buckets' = B
         /\ jobState' = J
         /\ timers' = T
         /\ UNCHANGED startLog
    ELSE IF Throttled(bucket, now)
    THEN /\ timers' = T \cup {[key |-> key, at |-> bucket.resetAt]}
         /\ buckets' = B
         /\ jobState' = J
         /\ UNCHANGED startLog
    ELSE IF bucket.queue = <<>>
    THEN /\ buckets' = [B EXCEPT ![key].isRunning = FALSE]
         /\ jobState' = J
         /\ timers' = T
         /\ UNCHANGED startLog
    ELSE LET sh == Shift(bucket.queue) IN
         /\ buckets' = [B EXCEPT ![key] =
                [bucket EXCEPT !.queue = sh.rest,
                               !.isRunning = TRUE,
                               !.remaining = bucket.remaining - 1]]
         /\ jobState' = [J EXCEPT ![sh.job] = "fetching"]
         /\ startLog' = [startLog EXCEPT ![key] = Append(@, sh.job)]
         /\ timers' = T

\* Rest.request -> new Promise -> Rest.queueRequest
Enqueue(req) ==
    /\ LET j == Len(jobReq) + 1
           key == getBucketKey(req.method, req.route)
           old == IF buckets[key] = NoBucket THEN NewBucket ELSE buckets[key]
           bucket == [old EXCEPT !.queue = Append(old.queue, j)]
           B == [buckets EXCEPT ![key] = bucket]
           J == Append(jobState, "queued")
       IN /\ jobReq' = Append(jobReq, req)
          /\ jobRes' = Append(jobRes, NoRes)
          /\ promise' = Append(promise, PendingPromise)
          /\ IF ShouldRun(bucket)
             THEN runBucket(key, B, J, timers)
             ELSE /\ buckets' = B
                  /\ jobState' = J
                  /\ UNCHANGED <<timers, startLog>>
    /\ UNCHANGED now

\* A caller makes a request
Request(req) ==
    /\ Len(jobReq) < MaxJobs
    /\ Enqueue(req)

\* The job's fetch() resolves with a response: the rate-limit headers are
\* read and written to the bucket; the body is still to be read.
FetchRespond(j, res) ==
    /\ j \in JobIds
    /\ jobState[j] = "fetching"
    /\ LET remaining == parseInt(Coalesce(res.remaining, "1"))
           reset == parseFloat(Coalesce(res.reset, "0"))
           key == KeyOf(j)
       IN buckets' = IF buckets[key] = NoBucket THEN buckets
                     ELSE [buckets EXCEPT ![key].remaining = remaining,
                                          ![key].resetAt = reset * 1000]
    /\ jobState' = [jobState EXCEPT ![j] = "body"]
    /\ jobRes' = [jobRes EXCEPT ![j] = res]
    /\ UNCHANGED <<now, timers, jobReq, promise, startLog>>

\* res.json() settles: the caller's promise is settled, the job's fn()
\* fulfils and the finally callback runs the bucket again.
BodyDone(j) ==
    /\ j \in JobIds
    /\ jobState[j] = "body"
    /\ LET res == jobRes[j]
           data == JsonOrEmpty(res.body)
       IN promise' = [promise EXCEPT ![j] =
              IF ~ResOk(res.status)
              THEN Settle(promise[j], "rejected", [status |-> res.status, body |-> data])
              ELSE Settle(promise[j], "resolved", data)]
    /\ IF RunsAfter("fulfilled")
       THEN runBucket(KeyOf(j), buckets, [jobState EXCEPT ![j] = "done"], timers)
       ELSE /\ jobState' = [jobState EXCEPT ![j] = "done"]
            /\ UNCHANGED <<buckets, timers, startLog>>
    /\ jobRes' = [jobRes EXCEPT ![j] = NoRes]
    /\ UNCHANGED <<now, jobReq>>

\* The job's fetch() rejects (transport failure): fn() rejects at the await,
\* neither resolve nor reject of the caller's promise is called; the finally
\* callback runs the bucket again.
FetchFail(j) ==
    /\ j \in JobIds
    /\ jobState[j] = "fetching"
    /\ IF RunsAfter("rejected")
       THEN runBucket(KeyOf(j), buckets, [jobState EXCEPT ![j] = "failed"], timers)
       ELSE /\ jobState' = [jobState EXCEPT ![j] = "failed"]
            /\ UNCHANGED <<buckets, timers, startLog>>
    /\ UNCHANGED <<now, jobReq, jobRes, promise>>

\* A setTimeout callback of runBucket comes due
TimerFire(t) ==
    /\ t \in timers
    /\ now >= t.at
    /\ runBucket(t.key, buckets, jobState, timers \ {t})
    /\ UNCHANGED <<now, jobReq, jobRes, promise>>

\* Time passes
Tick ==
    /\ now < Horizon
    /\ now' = now + TickMs
    /\ UNCHANGED <<buckets, timers, jobReq, jobState, jobRes, promise, startLog>>

(***************************************************************************)
(* Gateway Socket: operations                                              *)
(***************************************************************************)

\* SocketSettings: maxRetries (optional), sessionStore (optional) and warns
\* (optional, undefined is false)
SettingsChoices ==
    { [maxRetries |-> m, store |-> b, warns |-> w] :
        m \in {0, 2}, b \in BOOLEAN, w \in BOOLEAN }

DefaultSettings == [maxRetries |-> NoNumber, store |-> FALSE, warns |-> FALSE]

\* GatewayDispatchEvents (the two the model uses)
EventNames == {"READY", "MESSAGE_CREATE"}

\* The handlers a caller registers; the last one throws when it is called
Handlers == {"h1", "hThrows"}

\* What sessionStore.load() resolves with: null, or a saved session
NoSession == [none |-> TRUE]

StoredSession == [sessionId |-> "sid0", seq |-> 1]

\* new WebSocket( GATEWAY ): connecting, no handler set, nothing sent,
\* close() not called (closeCode 0)
\* Bun.nanoseconds() at Date.now() = t: the nanoseconds since the process
\* started, which it did 1 ms before the clock of the model read 0
nanoseconds(t) == (t + 1) * 1000000

NewSocket ==
    [readyState |-> "CONNECTING", onopen |-> 0, onerror |-> 0,
     onclose |-> [h |-> "null"], onmessage |-> FALSE, sent |-> <<>>,
     closeCode |-> 0]

InitSocketVars ==
    /\ started = FALSE
    /\ ws = 0
    /\ socks = <<>>
    /\ heartbeat = 0
    /\ intervals = {}
    /\ sessionId = Null
    /\ lastSequence = NoNumber
    /\ reconnecting = FALSE
    /\ retries = 0
    /\ lastPing = 0
    /\ lastACK = 0
    /\ starts = <<>>
    /\ destroys = <<>>
    /\ reconns = <<>>
    /\ delivered = <<>>
    /\ events = [e \in EventNames |-> Null]
    /\ listened = <<>>
    /\ invoked = <<>>
    /\ saved = <<>>
    /\ acked = FALSE
    /\ logged = <<>>
    /\ presences = <<>>
    /\ startTime = nanoseconds(0)
    /\ persisted \in {NoSession, StoredSession}

InitSocket ==
    /\ InitRestVars
    /\ InitSocketVars
    /\ settings \in SettingsChoices
    /\ (~settings.store => persisted = NoSession)

\* The fields of the Socket instance and its calls, as one value
Cur ==
    [started |-> started, ws |-> ws, socks |-> socks, heartbeat |-> heartbeat,
     intervals |-> intervals, sessionId |-> sessionId,
     lastSequence |-> lastSequence, reconnecting |-> reconnecting,
     retries |-> retries, lastPing |-> lastPing, lastACK |-> lastACK,
     starts |-> starts, destroys |-> destroys, reconns |-> reconns,
     persisted |-> persisted, delivered |-> delivered, events |-> events,
     listened |-> listened, invoked |-> invoked, saved |-> saved,
     acked |-> acked,
     logged |-> logged, presences |-> presences, startTime |-> startTime]

Becomes(st) ==
    /\ started' = st.started
    /\ ws' = st.ws
    /\ socks' = st.socks
    /\ heartbeat' = st.heartbeat
    /\ intervals' = st.intervals
    /\ sessionId' = st.sessionId
    /\ lastSequence' = st.lastSequence
    /\ reconnecting' = st.reconnecting
    /\ retries' = st.retries
    /\ lastPing' = st.lastPing
    /\ lastACK' = st.lastACK
    /\ starts' = st.starts
    /\ destroys' = st.destroys
    /\ reconns' = st.reconns
    /\ persisted' = st.persisted
    /\ delivered' = st.delivered
    /\ events' = st.events
    /\ listened' = st.listened
    /\ invoked' = st.invoked
    /\ saved' = st.saved
    /\ acked' = st.acked
    /\ logged' = st.logged
    /\ presences' = st.presences
    /\ startTime' = st.startTime
    /\ UNCHANGED <<settings, restVars, dictVars>>

Min(a, b) == IF a <= b THEN a ELSE b

\* reconnect: Math.min( 2 ** retries * 1000, 30000 )
BackoffUncapped(n) == (2 ^ n) * 1000

Backoff(n) == Min((2 ^ n) * 1000, 30000)

\* reconnect: this.settings.maxRetries ?? 5
MaxRetriesOf(cfg) == IF cfg.maxRetries = NoNumber THEN 5 ELSE cfg.maxRetries

\* settings.sessionStore?.clear()
StoreClear(st) == [st EXCEPT !.persisted = NoSession]

\* The continuation of reconnect() after `await this.start()`: the try branch
\* when start() fulfilled, the catch branch when it rejected
reconnectAfterStartNoReset(st, r, ok) ==
    [st EXCEPT !.reconnecting = FALSE,
               !.reconns[r].phase = IF ok THEN "true" ELSE "rejected"]

reconnectAfterStart(st, r, ok) ==
    IF ok
    THEN [st EXCEPT !.retries = 0,
                    !.reconnecting = FALSE,
                    !.reconns[r].phase = "true"]
    ELSE [st EXCEPT !.reconnecting = FALSE,
                    !.reconns[r].phase = "rejected"]

\* resolve() / reject() of the promise start() call k returned, and what runs
\* when it settles
settleStart(st, k, ok) ==
    IF st.starts[k].phase # "pending"
    THEN st
    ELSE LET st1 == [st EXCEPT !.starts[k].phase =
                                    IF ok THEN "resolved" ELSE "rejected"]
         IN IF st.starts[k].by = 0 THEN st1
            ELSE reconnectAfterStart(st1, st.starts[k].by, ok)

\* reconnect: if ( clear ) { ... }
ClearSessionKeepStore(st, clear) ==
    IF clear
    THEN [st EXCEPT !.sessionId = Null, !.lastSequence = NoNumber]
    ELSE st

ClearSession(st, clear) ==
    IF clear
    THEN StoreClear([st EXCEPT !.sessionId = Null, !.lastSequence = NoNumber])
    ELSE st

\* reconnect: if ( retries >= maxRetries )
LimitReachedStrict(n, cfg) == n > MaxRetriesOf(cfg)

LimitReached(n, cfg) == n >= MaxRetriesOf(cfg)

\* reconnect() from the statement after `await this.destroy()` to its return
\* or to the setTimeout of the backoff
reconnectAfterDestroy(st, r) ==
    LET st1 == ClearSession(st, st.reconns[r].clear)
        n == st1.retries
        st2 == [st1 EXCEPT !.retries = n + 1, !.reconns[r].n = n]
    IN IF LimitReached(n, settings)
       THEN [StoreClear(st2) EXCEPT !.reconnecting = FALSE,
                                    !.reconns[r].phase = "false"]
       ELSE [st2 EXCEPT !.reconns[r].phase = "backoff",
                        !.reconns[r].delay = Backoff(n),
                        !.reconns[r].due = now + Backoff(n)]

\* res() of the `closing` promise of destroy() call d, and what runs when
\* destroy() returns true
resolveDestroy(st, d) ==
    LET st1 == [st EXCEPT !.destroys[d].phase = "true"]
    IN IF st.destroys[d].by = 0 THEN st1
       ELSE reconnectAfterDestroy(st1, st.destroys[d].by)

\* destroy: ws.readyState === OPEN || ws.readyState === CONNECTING
ShouldClose(readyState) == readyState \in {"OPEN", "CONNECTING"}

\* destroy: ws.close( 1000, ... ) when the test above passes
close(sock) ==
    IF ShouldClose(sock.readyState)
    THEN [sock EXCEPT !.readyState = "CLOSING", !.closeCode = 1000]
    ELSE sock

\* destroy: ws.onopen = null; ws.onmessage = null; ws.onerror = null
ReleaseHandlersKeepError(sock) ==
    [sock EXCEPT !.onopen = 0, !.onmessage = FALSE]

ReleaseHandlers(sock) ==
    [sock EXCEPT !.onopen = 0, !.onmessage = FALSE, !.onerror = 0]

\* Socket.destroy() up to its `await closing` (or to its return when there is
\* no socket), called by the caller (by = 0) or by reconnect() call `by`
destroy(st, by) ==
    LET d == Len(st.destroys) + 1
        st1 == IF st.heartbeat # 0
               THEN [st EXCEPT !.intervals = { i \in @ : i.id # st.heartbeat },
                               !.heartbeat = 0]
               ELSE st
    IN IF st1.ws # 0
       THEN LET s == st1.ws
                sock == st1.socks[s]
            IN [st1 EXCEPT
                  !.socks[s] =
                      ReleaseHandlers(
                          close([sock EXCEPT !.onclose = [h |-> "destroy", d |-> d]])),
                  !.ws = 0,
                  !.destroys = Append(@, [phase |-> "closing", sock |-> s, by |-> by,
                                          was |-> sock.readyState,
                                          timer |-> st.heartbeat])]
       ELSE [st1 EXCEPT
                  !.destroys = Append(@, [phase |-> "true", sock |-> 0, by |-> by,
                                          was |-> "none",
                                          timer |-> st.heartbeat])]

\* Socket.start() up to its `await this.settings.sessionStore?.load()`, called
\* by the caller (by = 0) or by the backoff timer of reconnect() call `by`
start(st, by) ==
    LET s == Len(st.socks) + 1
    IN [st EXCEPT !.started = TRUE,
                  !.socks = Append(@, NewSocket),
                  !.ws = s,
                  !.starts = Append(@, [phase |-> "loading", by |-> by, sock |-> s])]

\* The calls made by the caller so far
CallerCalls ==
    Cardinality({ k \in DOMAIN starts : starts[k].by = 0 })
    + Cardinality({ d \in DOMAIN destroys : destroys[d].by = 0 })
    + Cardinality({ r \in DOMAIN reconns : reconns[r].from = 0 })

\* A continuation that is already due as a microtask: `await undefined` of a
\* start() without sessionStore, `await` of a destroy() that returned at once.
\* Socket events and timers wait for it; the caller's own code does not.
MicrotaskPending ==
    \/ \E k \in DOMAIN starts : starts[k].phase = "loading" /\ ~settings.store
    \/ \E r \in DOMAIN reconns :
          /\ reconns[r].phase = "destroying"
          /\ destroys[reconns[r].destroy].phase = "true"

\* A continuation that is due as a microtask of a timer or event callback
\* (the load of a start() the backoff timer invoked, without sessionStore;
\* the rest of a reconnect() that _handleMessage called when there was no
\* socket to destroy): it runs before any code of the caller can
CallbackMicrotask ==
    \/ \E k \in DOMAIN starts :
          starts[k].phase = "loading" /\ ~settings.store /\ starts[k].by # 0
    \/ \E r \in DOMAIN reconns :
          /\ reconns[r].phase = "destroying"
          /\ reconns[r].from # 0
          /\ destroys[reconns[r].destroy].phase = "true"

\* The caller calls start()
CallStart ==
    /\ CallerCalls < MaxCalls
    /\ ~CallbackMicrotask
    /\ Becomes(start(Cur, 0))
    /\ UNCHANGED now

\* start() resumes after the load: the session is restored and the promise
\* with the four handlers is created on this._ws (a TypeError when it is null)
StartLoaded(k) ==
    /\ k \in DOMAIN starts
    /\ starts[k].phase = "loading"
    /\ LET st1 == IF settings.store /\ persisted # NoSession
                  THEN [Cur EXCEPT !.sessionId = persisted.sessionId,
                                   !.lastSequence = persisted.seq]
                  ELSE Cur
       IN IF st1.ws = 0
          THEN Becomes(settleStart([st1 EXCEPT !.starts[k].phase = "pending"], k, FALSE))
          ELSE Becomes([st1 EXCEPT !.starts[k].phase = "pending",
                                   !.socks[st1.ws].onopen = k,
                                   !.socks[st1.ws].onclose = [h |-> "log"],
                                   !.socks[st1.ws].onerror = k,
                                   !.socks[st1.ws].onmessage = TRUE])
    /\ UNCHANGED now

\* The caller calls destroy()
CallDestroy ==
    /\ CallerCalls < MaxCalls
    /\ ~CallbackMicrotask
    /\ Becomes(destroy(Cur, 0))
    /\ UNCHANGED now

\* reconnect: if ( this._reconnecting ) return false
ReconnectInFlightNever(st) == FALSE

ReconnectInFlight(st) == st.reconnecting

\* Socket.reconnect(clear) up to its `await this.destroy()`, called by the
\* caller (from = 0) or by _handleMessage on the frame with index `from`; the
\* call records the counter and the session id it found (n0, sid) and, once
\* it has read the counter, the value it read (n)
reconnect(st, clear, from) ==
    LET r == Len(st.reconns) + 1
        call == [phase |-> "destroying", clear |-> clear,
                 destroy |-> Len(st.destroys) + 1, delay |-> 0, due |-> 0,
                 n0 |-> st.retries, n |-> NoNumber, sid |-> st.sessionId,
                 from |-> from]
    IN IF ReconnectInFlight(st)
       THEN [st EXCEPT !.reconns = Append(@, [call EXCEPT !.phase = "noop", !.destroy = 0])]
       ELSE destroy([st EXCEPT !.reconnecting = TRUE,
                               !.reconns = Append(@, call)], r)

\* The caller calls reconnect(clear)
CallReconnect(clear) ==
    /\ CallerCalls < MaxCalls
    /\ ~CallbackMicrotask
    /\ Becomes(reconnect(Cur, clear, 0))
    /\ UNCHANGED now

\* reconnect() resumes after a destroy() that had no socket to close
ReconnectResume(r) ==
    /\ r \in DOMAIN reconns
    /\ reconns[r].phase = "destroying"
    /\ destroys[reconns[r].destroy].phase = "true"
    /\ Becomes(reconnectAfterDestroy(Cur, r))
    /\ UNCHANGED now

Max(a, b) == IF a >= b THEN a ELSE b

\* log.warn( ... ) and log.fail( ... ): the message printed, by its name in
\* SOCKET_MESSAGES
Log(st, message) == [st EXCEPT !.logged = Append(@, message)]

\* if ( this.settings.warns ) log.warn( ... )
Warn(st, message) == IF settings.warns THEN Log(st, message) ELSE st

\* The backoff timer of reconnect() call r fires, at its due time or later:
\* start() is called
ReconnectTimer(r) ==
    /\ ~MicrotaskPending
    /\ r \in DOMAIN reconns
    /\ reconns[r].phase = "backoff"
    /\ now' = Max(now, reconns[r].due)
    /\ Becomes(start([Cur EXCEPT !.reconns[r].phase = "starting"], r))

\* The open event of socket s
SocketOpen(s) ==
    /\ ~MicrotaskPending
    /\ s \in DOMAIN socks
    /\ socks[s].readyState = "CONNECTING"
    /\ LET st1 == [Cur EXCEPT !.socks[s].readyState = "OPEN"]
       IN IF socks[s].onopen # 0
          THEN Becomes(settleStart([st1 EXCEPT !.lastACK = now], socks[s].onopen, TRUE))
          ELSE Becomes(st1)
    /\ UNCHANGED now

\* The server starts the closing handshake of socket s
RemoteClosing(s) ==
    /\ ~MicrotaskPending
    /\ s \in DOMAIN socks
    /\ socks[s].readyState = "OPEN"
    /\ Becomes([Cur EXCEPT !.socks[s].readyState = "CLOSING"])
    /\ UNCHANGED now

\* The onerror handler start() call k attached: reject( log.fail( ... ) )
onerror(st, k) == settleStart(Log(st, "ERROR"), k, FALSE)

\* The onclose handler start() attached
oncloseReconnecting(st) == reconnect(Warn(st, "CLOSED"), FALSE, 0)

onclose(st) == Warn(st, "CLOSED")

\* Socket s is closed: after a failure (failed) the error event and then the
\* close event are dispatched, otherwise the close event alone
SocketClosed(s, failed) ==
    /\ ~MicrotaskPending
    /\ s \in DOMAIN socks
    /\ socks[s].readyState # "CLOSED"
    /\ (socks[s].readyState = "CONNECTING" => failed)
    /\ LET st1 == [Cur EXCEPT !.socks[s].readyState = "CLOSED"]
           st2 == IF failed /\ socks[s].onerror # 0
                  THEN onerror(st1, socks[s].onerror)
                  ELSE st1
       IN CASE socks[s].onclose.h = "destroy" ->
                   Becomes(resolveDestroy(st2, socks[s].onclose.d))
            [] socks[s].onclose.h = "log" -> Becomes(onclose(st2))
            [] OTHER -> Becomes(st2)
    /\ UNCHANGED now

\* d.heartbeat_interval of the Hello frames the gateway sends, in ms
HeartbeatInterval == 1000

\* The data of a message event.  Text that parses is a GatewayReceivePayload:
\* op, t (Null when absent), s (NoNumber when null) and d, of which the model
\* keeps d.heartbeat_interval (interval), d.session_id (session_id, Null when
\* absent) and, under d, "true" or "false" for a boolean and a name for an
\* object.  Text that does not parse has op Unparseable.
Frame(op, t, s, d, session_id, interval) ==
    [op |-> op, t |-> t, s |-> s, d |-> d, session_id |-> session_id,
     interval |-> interval]

Unparseable == "#unparseable"

Hello == Frame("Hello", Null, NoNumber, "hello", Null, HeartbeatInterval)

HeartbeatAck == Frame("HeartbeatAck", Null, NoNumber, Null, Null, 0)

\* The frames of the heartbeat exchange
Frames == { Hello, HeartbeatAck }

\* The sequence numbers of the Dispatch frames the gateway sends: from 1 on
\* (the sessionStore of the model may hold 1)
Sequences == {2, 3}

\* The frames and other data the gateway sends
GatewayFrames ==
    Frames
    \cup { Frame("Reconnect", Null, NoNumber, Null, Null, 0) }
    \cup { Frame("InvalidSession", Null, NoNumber, d, Null, 0) : d \in {"true", "false"} }
    \cup { Frame("Dispatch", "READY", 2, "ready", "sid1", 0) }
    \cup { Frame("Dispatch", "MESSAGE_CREATE", s, "message", Null, 0) : s \in Sequences }
    \cup { Frame(Unparseable, Null, NoNumber, Null, Null, 0) }

\* JSON.parse( event.data.toString() ) returns
ParsesAnything(data) == TRUE

Parses(data) == data.op # Unparseable

\* A value of d that is truthy
Truthy(d) == d \notin {"false", Null}

\* this._ws!.send( frame ): a TypeError when _ws is null (nothing is sent), an
\* InvalidStateError while the socket is connecting, dropped once it is
\* closing or closed
send(st, frame) ==
    IF st.ws = 0 THEN st
    ELSE IF st.socks[st.ws].readyState = "OPEN"
    THEN [st EXCEPT !.socks[st.ws].sent = Append(@, frame)]
    ELSE st

\* presence( data ) that returns without a word when there is no socket
presenceSilent(st) ==
    LET call == [sock |-> st.ws, destroyed |-> Len(st.destroys), threw |-> FALSE]
        st1 == [st EXCEPT !.presences = Append(@, call)]
    IN send(st1, [op |-> "PresenceUpdate", d |-> NoNumber])

\* presence( data ): the ws getter prints NO_SOCKET and throws when _ws is
\* null; otherwise the frame goes to send() of that socket, which throws
\* while the socket is connecting.  The call is recorded with the _ws it
\* found and the number of destroy() calls made before it.
presence(st) ==
    LET call == [sock |-> st.ws, destroyed |-> Len(st.destroys), threw |-> TRUE]
        st1 == [st EXCEPT !.presences = Append(@, call)]
    IN IF st.ws = 0
       THEN Log(st1, "NO_SOCKET")
       ELSE send([st1 EXCEPT !.presences[Len(st1.presences)].threw =
                                st.socks[st.ws].readyState = "CONNECTING"],
                 [op |-> "PresenceUpdate", d |-> NoNumber])

\* The caller calls presence()
CallPresence ==
    /\ Len(presences) < MaxPresences
    /\ ~CallbackMicrotask
    /\ Becomes(presence(Cur))
    /\ UNCHANGED now

\* A timer setInterval started: its handle, its interval, when it fires next
\* and, for the record, the index of the Hello frame that started it
\*
\* The handle setInterval returns: one no running timer has
NewHandle(st) ==
    LET used == { i.id : i \in st.intervals }
    IN CHOOSE h \in 1..(Cardinality(used) + 1) :
          h \notin used /\ \A g \in 1..(h - 1) : g \in used

\* settings.sessionStore?.save( data )
StoreSave(st, data) ==
    IF settings.store
    THEN [st EXCEPT !.persisted = data,
                    !.saved = Append(@, [data |-> data, at |-> Len(st.delivered)])]
    ELSE st

\* _handleMessage: `if ( s )` and what it guards
updateSequenceUnsaved(st, frame) ==
    IF frame.s # NoNumber /\ frame.s # 0
    THEN [st EXCEPT !.lastSequence = frame.s]
    ELSE st

updateSequence(st, frame) ==
    IF frame.s # NoNumber /\ frame.s # 0
    THEN LET st1 == [st EXCEPT !.lastSequence = frame.s]
         IN IF st1.sessionId # Null
            THEN StoreSave(st1, [sessionId |-> st1.sessionId, seq |-> frame.s])
            ELSE st1
    ELSE st

\* _handleMessage, InvalidSession: d && this._sessionId &&
\* this._lastSequence !== null
ResumableWhateverD(st, frame) ==
    st.sessionId # Null /\ st.lastSequence # NoNumber

Resumable(st, frame) ==
    Truthy(frame.d) /\ st.sessionId # Null /\ st.lastSequence # NoNumber

\* _handleMessage, Dispatch: t === "READY" && typeof d === "object" &&
\* d.session_id, and what it guards (the seq saved is _lastSequence ?? 0)
captureSessionUnsaved(st, frame) ==
    IF frame.t = "READY" /\ frame.session_id # Null
    THEN [st EXCEPT !.sessionId = frame.session_id]
    ELSE st

captureSession(st, frame) ==
    IF frame.t = "READY" /\ frame.session_id # Null
    THEN StoreSave([st EXCEPT !.sessionId = frame.session_id],
                   [sessionId |-> frame.session_id,
                    seq |-> IF st.lastSequence = NoNumber THEN 0 ELSE st.lastSequence])
    ELSE st

\* What a handler does when it is called: it returns, or it throws
Throws(handler) == handler = "hThrows"

\* _handleMessage, Dispatch: `if ( t )` and what it guards; the record of an
\* invocation keeps the session id and the stored session the handler finds
dispatchUncaught(st, frame) ==
    IF frame.t # Null /\ st.events[frame.t] # Null
    THEN [st EXCEPT !.invoked =
             Append(@, [handler |-> st.events[frame.t], event |-> frame.t,
                        d |-> frame.d, at |-> Len(st.delivered),
                        sid |-> st.sessionId, stored |-> st.persisted])]
    ELSE st

dispatch(st, frame) ==
    IF frame.t # Null /\ st.events[frame.t] # Null
    THEN LET handler == st.events[frame.t]
             st1 == [st EXCEPT !.invoked =
                        Append(@, [handler |-> handler, event |-> frame.t,
                                   d |-> frame.d, at |-> Len(st.delivered),
                                   sid |-> st.sessionId, stored |-> st.persisted])]
         IN IF Throws(handler) THEN Log(st1, "HANDLER_ERROR") ELSE st1
    ELSE st

\* Socket._handleMessage on a frame that parses
handleMessage(st, frame) ==
    LET st1 == updateSequence(st, frame)
    IN CASE frame.op = "Hello" ->
              LET h == NewHandle(st1)
                  st2 == [st1 EXCEPT
                            !.lastPing = now,
                            !.acked = FALSE,
                            !.heartbeat = h,
                            !.intervals = @ \cup
                                {[id |-> h, every |-> frame.interval,
                                  next |-> now + frame.interval,
                                  hello |-> Len(st1.delivered)]}]
              IN send(st2, [op |-> "Identify", d |-> NoNumber])
         [] frame.op = "HeartbeatAck" ->
              [st1 EXCEPT !.lastACK = now, !.acked = TRUE]
         [] frame.op = "Reconnect" ->
              reconnect(st1, FALSE, Len(st1.delivered))
         [] frame.op = "InvalidSession" ->
              LET st2 == Warn(st1, "INVALID_SESSION")
              IN IF Resumable(st2, frame)
                 THEN send(st2, [op |-> "Resume",
                                 d |-> [session_id |-> st2.sessionId,
                                        seq |-> st2.lastSequence]])
                 ELSE reconnect(st2, TRUE, Len(st2.delivered))
         [] frame.op = "Dispatch" ->
              dispatch(captureSession(st1, frame), frame)
         [] OTHER -> st1

\* Socket._handleMessage: text that does not parse is logged and dropped
onmessage(st, data) ==
    IF Parses(data) THEN handleMessage(st, data) ELSE Log(st, "JSON_INVALID")

\* A message event of socket s
MessageEvent(s, frame) ==
    /\ ~MicrotaskPending
    /\ s \in DOMAIN socks
    /\ socks[s].readyState = "OPEN"
    /\ socks[s].onmessage
    /\ Becomes(onmessage(
                  [Cur EXCEPT !.delivered = Append(@, [sock |-> s, frame |-> frame])],
                  frame))
    /\ UNCHANGED now

SocketMessage(s, frame) ==
    /\ Len(delivered) < MaxFrames
    /\ MessageEvent(s, frame)

\* Socket.listen( event, handler )
listen(st, event, handler) ==
    LET st1 == IF st.events[event] # Null THEN Warn(st, "LISTENER_REPLACED") ELSE st
    IN [st1 EXCEPT !.events[event] = handler,
                   !.listened = Append(@, [event |-> event, handler |-> handler,
                                           had |-> st.events[event]])]

\* The callback of a running heartbeat timer, when its interval has elapsed
HeartbeatFire(i) ==
    /\ ~MicrotaskPending
    /\ i \in intervals
    /\ i.next <= MaxBeats * HeartbeatInterval
    /\ now' = Max(now, i.next)
    /\ LET st1 == [Cur EXCEPT
                      !.intervals = (@ \ {i}) \cup {[i EXCEPT !.next = @ + i.every]},
                      !.lastPing = now',
                      !.acked = FALSE]
       IN Becomes(send(st1, [op |-> "Heartbeat", d |-> st1.lastSequence]))

NextSocket ==
    \/ CallStart
    \/ \E k \in DOMAIN starts : StartLoaded(k)
    \/ CallDestroy
    \/ \E clear \in BOOLEAN : CallReconnect(clear)
    \/ \E r \in DOMAIN reconns : ReconnectResume(r)
    \/ \E r \in DOMAIN reconns : ReconnectTimer(r)
    \/ \E s \in DOMAIN socks : SocketOpen(s)
    \/ \E s \in DOMAIN socks : RemoteClosing(s)
    \/ \E s \in DOMAIN socks, failed \in BOOLEAN : SocketClosed(s, failed)
    \/ \E s \in DOMAIN socks, frame \in GatewayFrames : SocketMessage(s, frame)
    \/ \E i \in intervals : HeartbeatFire(i)

SpecSocket == InitSocket /\ [][NextSocket]_vars

\* The event loop runs every continuation and timer callback that is ready,
\* a load() of the sessionStore completes, and a socket that is connecting or
\* closing does not stay so for ever.  An open socket may stay open, and the
\* caller and the gateway need not do anything.
ProgressSocket ==
    \/ \E k \in DOMAIN starts : StartLoaded(k)
    \/ \E r \in DOMAIN reconns : ReconnectResume(r)
    \/ \E r \in DOMAIN reconns : ReconnectTimer(r)
    \/ \E s \in DOMAIN socks : SocketOpen(s)
    \/ \E s \in DOMAIN socks, failed \in BOOLEAN :
          socks[s].readyState \in {"CONNECTING", "CLOSING"} /\ SocketClosed(s, failed)
    \/ \E i \in intervals : HeartbeatFire(i)

FairSocket == WF_vars(ProgressSocket)

SpecSocketFair == SpecSocket /\ FairSocket

\* A caller that only recovers: an instance with maxRetries: 1 and a
\* sessionStore that holds nothing, on which the caller calls nothing but
\* reconnect() and destroy()
InitRetry ==
    /\ InitRestVars
    /\ InitSocketVars
    /\ settings = [maxRetries |-> 1, store |-> TRUE, warns |-> FALSE]
    /\ persisted = NoSession

RetryDestroy ==
    /\ CallerCalls < MaxRetryCalls
    /\ ~CallbackMicrotask
    /\ Becomes(destroy(Cur, 0))
    /\ UNCHANGED now

RetryReconnect ==
    /\ CallerCalls < MaxRetryCalls
    /\ ~CallbackMicrotask
    /\ ~reconnecting
    /\ Becomes(reconnect(Cur, FALSE, 0))
    /\ UNCHANGED now

NextRetry ==
    \/ RetryDestroy
    \/ RetryReconnect
    \/ \E k \in DOMAIN starts : StartLoaded(k)
    \/ \E r \in DOMAIN reconns : ReconnectResume(r)
    \/ \E r \in DOMAIN reconns : ReconnectTimer(r)
    \/ \E s \in DOMAIN socks : SocketOpen(s)
    \/ \E s \in DOMAIN socks, failed \in BOOLEAN : SocketClosed(s, failed)

SpecRetry == InitRetry /\ [][NextRetry]_vars

\* new Client( settings ): the SocketSettings its Socket is constructed with
\* are intents, token, maxRetries and sessionStore of the ClientSettings;
\* warns is not among them
SocketOfClient(cfg) ==
    [maxRetries |-> cfg.maxRetries, store |-> cfg.store, warns |-> FALSE]

\* A Dictionary and its caller: it is constructed from at most two entries
\* with or without a limit, and the caller calls set()
InitDictionary ==
    /\ InitSocketVars
    /\ settings = DefaultSettings
    /\ persisted = NoSession
    /\ now = 0
    /\ buckets = [k \in BucketKeys |-> NoBucket]
    /\ timers = {}
    /\ jobReq = <<>>
    /\ jobState = <<>>
    /\ jobRes = <<>>
    /\ promise = <<>>
    /\ startLog = [k \in BucketKeys |-> <<>>]
    /\ called = <<>>
    /\ \E limit \in {NoNumber, 0, 1, 4, 6, 8, 12} :
          \E iterable \in {<<>>} \cup { <<e>> : e \in DictEntries }
                              \cup (DictEntries \X DictEntries) :
              dictionary = Dictionary(iterable, limit)

\* The caller calls set( key, value )
DictSet(key, value) ==
    /\ dictionary' = set(dictionary, key, value)
    /\ called' = <<key, value>>
    /\ UNCHANGED <<now, restVars, socketVars>>

NextDictionary == \E e \in DictEntries : DictSet(e[1], e[2])

SpecDictionary == InitDictionary /\ [][NextDictionary]_vars

\* A Client and its caller: the caller calls connect() and destroy() of the
\* Client, presence() of its socket and reads uptime, while time passes and
\* the connection opens and closes.  The gateway sends nothing.
InitClient ==
    /\ InitRestVars
    /\ InitSocketVars
    /\ settings \in { SocketOfClient(cfg) : cfg \in SettingsChoices }
    /\ (~settings.store => persisted = NoSession)

\* Client.destroy(): this._start_time = 0, then this._socket.destroy()
ClientDestroy ==
    /\ CallerCalls < MaxCalls
    /\ ~CallbackMicrotask
    /\ Becomes(destroy([Cur EXCEPT !.startTime = 0], 0))
    /\ UNCHANGED now

\* Client.uptime, read now
uptime ==
    LET time == nanoseconds(now) - startTime
    IN IF time < 0 THEN 0 ELSE time

NextClient ==
    \/ CallStart
    \/ \E k \in DOMAIN starts : StartLoaded(k)
    \/ ClientDestroy
    \/ CallPresence
    \/ \E s \in DOMAIN socks : SocketOpen(s)
    \/ \E s \in DOMAIN socks : RemoteClosing(s)
    \/ \E s \in DOMAIN socks, failed \in BOOLEAN : SocketClosed(s, failed)
    \/ Tick /\ UNCHANGED <<socketVars, dictVars>>

SpecClient == InitClient /\ [][NextClient]_vars

\* A caller that starts once and listens: it calls start() once and listen()
\* at any time, and the gateway sends any of GatewayFrames.  The Socket is
\* constructed by the caller or by a Client, from the same settings.
GatewaySettings ==
    LET Choices == { [maxRetries |-> 2, store |-> b, warns |-> w] :
                        b \in BOOLEAN, w \in BOOLEAN }
    IN Choices \cup { SocketOfClient(cfg) : cfg \in Choices }

InitGateway ==
    /\ InitRestVars
    /\ InitSocketVars
    /\ settings \in GatewaySettings
    /\ (~settings.store => persisted = NoSession)

GatewayStart ==
    /\ starts = <<>>
    /\ Becomes(start(Cur, 0))
    /\ UNCHANGED now

\* The caller calls listen(event, handler)
Listen(event, handler) ==
    /\ Len(listened) < MaxListens
    /\ ~CallbackMicrotask
    /\ Becomes(listen(Cur, event, handler))
    /\ UNCHANGED now

GatewayMessage(s, data) ==
    /\ Len(delivered) < MaxGatewayFrames
    /\ MessageEvent(s, data)

NextGateway ==
    \/ GatewayStart
    \/ \E event \in EventNames, handler \in Handlers : Listen(event, handler)
    \/ \E k \in DOMAIN starts : StartLoaded(k)
    \/ \E r \in DOMAIN reconns : ReconnectTimer(r)
    \/ \E s \in DOMAIN socks : SocketOpen(s)
    \/ \E s \in DOMAIN socks : RemoteClosing(s)
    \/ \E s \in DOMAIN socks, failed \in BOOLEAN : SocketClosed(s, failed)
    \/ \E s \in DOMAIN socks, data \in GatewayFrames : GatewayMessage(s, data)
    \/ \E i \in intervals : HeartbeatFire(i)

SpecGateway == InitGateway /\ [][NextGateway]_vars

(***************************************************************************)
(* Specifications                                                          *)
(***************************************************************************)

\* The scheduler alone: the Socket instance stays as constructed
InitRest ==
    /\ InitRestVars
    /\ InitSocketVars
    /\ settings = DefaultSettings
    /\ persisted = NoSession

NextRest ==
    /\ \/ \E req \in Requests : Request(req)
       \/ \E j \in 1..MaxJobs, res \in Responses : FetchRespond(j, res)
       \/ \E j \in 1..MaxJobs : BodyDone(j)
       \/ \E j \in 1..MaxJobs : FetchFail(j)
       \/ \E t \in timers : TimerFire(t)
       \/ Tick
    /\ UNCHANGED <<socketVars, dictVars>>

SpecRest == InitRest /\ [][NextRest]_vars

\* The event loop runs every callback that is ready: a started call settles,
\* a response body is read, a due timer fires; and time advances.  Callers
\* need not make further requests.
ProgressRest ==
    /\ \/ Tick
       \/ \E t \in timers : TimerFire(t)
       \/ \E j \in 1..MaxJobs, res \in Responses : FetchRespond(j, res)
       \/ \E j \in 1..MaxJobs : FetchFail(j)
       \/ \E j \in 1..MaxJobs : BodyDone(j)
    /\ UNCHANGED <<socketVars, dictVars>>

FairRest == WF_vars(ProgressRest)

SpecRestFair == SpecRest /\ FairRest

\* A burst: BurstJobs requests are made back-to-back to one route, as the
\* benchmark does, before any response arrives.  The response to the first
\* arrives at time 0 and reports one request left and a reset 5 s later;
\* the later responses report one left, none left, or nothing.
BurstRequest ==
    /\ Len(jobReq) < BurstJobs
    /\ \E args \in {"@me", "u2"} :
          Enqueue([method |-> "GET", route |-> "user", args |-> args])
    /\ UNCHANGED <<socketVars, dictVars>>

BurstResponses(j) ==
    { [status |-> o.status, body |-> o.body,
       remaining |-> h.remaining, reset |-> h.reset] :
      o \in Outcomes,
      h \in IF j = 1
            THEN { [remaining |-> "1", reset |-> "5"] }
            ELSE { [remaining |-> "1", reset |-> "5"],
                   [remaining |-> "0", reset |-> "5"],
                   [remaining |-> Null, reset |-> Null] } }

\* Time passes, once the first response has arrived and until the reset
BurstTick ==
    /\ jobReq # <<>>
    /\ jobState[1] # "fetching"
    /\ now < parseFloat("5") * 1000
    /\ now' = now + TickMs
    /\ UNCHANGED <<restVars, socketVars, dictVars>>

NextBurst ==
    \/ BurstRequest
    \/ /\ Len(jobReq) = BurstJobs
       /\ \/ \E j \in 1..BurstJobs : \E res \in BurstResponses(j) : FetchRespond(j, res)
          \/ \E j \in 1..BurstJobs : BodyDone(j)
          \/ \E j \in 1..BurstJobs : FetchFail(j)
          \/ \E t \in timers : TimerFire(t)
       /\ UNCHANGED <<socketVars, dictVars>>
    \/ BurstTick

SpecBurst == InitRest /\ [][NextBurst]_vars

(***************************************************************************)
(* REST scheduler: properties                                              *)
(***************************************************************************)

\* Jobs of a bucket whose fn() has been called and has not settled
InFlight(key) ==
    { j \in JobIds : KeyOf(j) = key /\ jobState[j] \in {"fetching", "body"} }

\* Job ids of the requests made for a (method, route) pair, in request order
JobsOfPair(method, route) ==
    SelectSeq([i \in 1..Len(jobReq) |-> i],
              LAMBDA j : jobReq[j].method = method /\ jobReq[j].route = route)

HasBucket(key) == buckets[key] # NoBucket

\* C1: in every reachable state, each bucket has at most one job whose
\* execution has begun and not yet settled.
C1_OneInFlightPerBucket ==
    \A key \in BucketKeys : Cardinality(InFlight(key)) <= 1

\* A bucket that has already completed a job is running one job while another
\* waits in its queue.
C1_Witness ==
    \E key \in BucketKeys :
        /\ HasBucket(key)
        /\ Cardinality(InFlight(key)) = 1
        /\ Len(buckets[key].queue) >= 1
        /\ Len(startLog[key]) >= 2

\* C2: a job of a bucket begins executing only in a step taken when the
\* bucket had remaining > 0 or now >= resetAt (a bucket not yet created counts
\* as the new bucket); and a running bucket with no job in flight has a retry
\* timer pending at its resetAt.
C2_StartOnlyWhenAllowed ==
    /\ [][\A key \in BucketKeys :
            Len(startLog'[key]) > Len(startLog[key]) =>
                LET b == IF HasBucket(key) THEN buckets[key] ELSE NewBucket
                IN b.remaining > 0 \/ now >= b.resetAt]_vars
    /\ [](\A key \in BucketKeys :
            (HasBucket(key) /\ buckets[key].isRunning /\ InFlight(key) = {}) =>
                [key |-> key, at |-> buckets[key].resetAt] \in timers)

\* The latest response said remaining = 0 with resetAt in the future: a job
\* waits in the queue, none is in flight, the retry is scheduled.
C2_Witness ==
    \E key \in BucketKeys :
        /\ HasBucket(key)
        /\ buckets[key].remaining = 0
        /\ now < buckets[key].resetAt
        /\ buckets[key].queue # <<>>
        /\ InFlight(key) = {}
        /\ [key |-> key, at |-> buckets[key].resetAt] \in timers

\* C3: for every (method, route) pair, the jobs that have begun executing are
\* exactly the first ones requested for that pair, in request order.
C3_StrictFifo ==
    \A r \in Requests :
        LET log == startLog[getBucketKey(r.method, r.route)]
            all == JobsOfPair(r.method, r.route)
        IN /\ Len(log) <= Len(all)
           /\ log = SubSeq(all, 1, Len(log))

\* Two jobs of one bucket have begun and a third one still waits, at a time
\* later than the first request.
C3_Witness ==
    \E key \in BucketKeys :
        /\ HasBucket(key)
        /\ Len(startLog[key]) = 2
        /\ Len(buckets[key].queue) = 1
        /\ now > 0

\* C4: under FairRest, every job waiting in a queue eventually begins
\* executing.  A job that has begun is never queued again and callers make
\* finitely many requests, so this is: from some point on no job is waiting.
C4_EveryJobEventuallyStarts ==
    <>[](\A j \in JobIds : jobState[j] # "queued")

\* A job failed at transport level and a later job of the same bucket has
\* begun executing.
C4_Witness ==
    \E j \in JobIds, i \in JobIds :
        /\ jobState[j] = "failed"
        /\ i > j
        /\ KeyOf(i) = KeyOf(j)
        /\ jobState[i] # "queued"

\* C5: once the call of a request has failed at transport level, the promise
\* request() returned is rejected.
C5_TransportFailureRejects ==
    \A j \in JobIds : jobState[j] = "failed" => promise[j].state = "rejected"

\* C6: resolve/reject of a caller's promise is called at most once, exactly
\* once by the time the job is done; in the step that finishes a job with a
\* response the promise becomes resolved with the parsed body (or {} when the
\* body is not JSON) for a 2xx status and rejected with {status, body}
\* otherwise; and a bucket with a queued job always has a job in flight or a
\* retry timer pending.
C6_SettledOncePerResponse ==
    /\ [](\A j \in JobIds :
            /\ promise[j].calls <= 1
            /\ jobState[j] = "done" => (promise[j].calls = 1 /\ promise[j].state # "pending"))
    /\ [][\A j \in JobIds :
            (jobState[j] = "body" /\ jobState'[j] = "done") =>
                LET st == jobRes[j].status
                    bd == IF jobRes[j].body = "garbage" THEN "{}" ELSE jobRes[j].body
                IN IF st \in 200..299
                   THEN promise'[j].state = "resolved" /\ promise'[j].value = bd
                   ELSE /\ promise'[j].state = "rejected"
                        /\ promise'[j].value = [status |-> st, body |-> bd]]_vars
    /\ [](\A key \in BucketKeys :
            (HasBucket(key) /\ buckets[key].queue # <<>>) =>
                \/ InFlight(key) # {}
                \/ \E t \in timers : t.key = key)

\* A job was rejected for a non-success response and a later job of the same
\* bucket was resolved.
C6_Witness ==
    \E j \in JobIds, i \in JobIds :
        /\ i > j
        /\ KeyOf(i) = KeyOf(j)
        /\ jobState[j] = "done" /\ promise[j].state = "rejected"
        /\ jobState[i] = "done" /\ promise[i].state = "resolved"

\* C7: a request for a (method, route) pair whose earlier jobs have all
\* settled, whose bucket is not throttled and has no retry pending, begins
\* executing in the step that makes it, whatever the other buckets are doing.
C7_OtherBucketsNeverDelay ==
    [][\A req \in Requests :
          LET j == Len(jobReq) + 1
              key == getBucketKey(req.method, req.route)
              mine == JobsOfPair(req.method, req.route)
          IN ( /\ Len(jobReq') = j
               /\ jobReq'[j] = req
               /\ \A n \in 1..Len(mine) : jobState[mine[n]] \in {"done", "failed"}
               /\ ~\E t \in timers : t.key = key
               /\ HasBucket(key) =>
                      (buckets[key].remaining > 0 \/ now >= buckets[key].resetAt) )
             => jobState'[j] = "fetching"]_vars

\* Jobs of two different buckets are in flight at the same time, one of the
\* buckets having a further job queued behind its busy one.
C7_Witness ==
    \E a \in BucketKeys, b \in BucketKeys :
        /\ a # b
        /\ HasBucket(a) /\ HasBucket(b)
        /\ InFlight(a) # {}
        /\ buckets[a].queue # <<>>
        /\ InFlight(b) # {}
        /\ startLog[b][Len(startLog[b])] > Head(buckets[a].queue)

(***************************************************************************)
(* Gateway Socket: properties                                              *)
(***************************************************************************)

\* The sockets of the instance that are connecting or open
LiveSockets ==
    { s \in DOMAIN socks : socks[s].readyState \in {"CONNECTING", "OPEN"} }

\* C8: in every reachable state at most one socket created by the instance
\* is connecting or open.
C8_AtMostOneLiveSocket == Cardinality(LiveSockets) <= 1

\* C9: in the step in which the socket a start() call created opens, that
\* call's promise is resolved, nothing having been sent on the socket; in the
\* step in which that socket fails while still connecting, the promise is
\* rejected; and a resolved promise stays resolved.
C9_StartSettlesOnOpenOrError ==
    [][\A k \in DOMAIN starts :
          LET s == starts[k].sock
          IN /\ (socks[s].readyState = "CONNECTING" /\ socks'[s].readyState = "OPEN")
                    => (starts'[k].phase = "resolved" /\ socks'[s].sent = <<>>)
             /\ (socks[s].readyState = "CONNECTING" /\ socks'[s].readyState = "CLOSED")
                    => starts'[k].phase = "rejected"
             /\ starts[k].phase = "resolved" => starts'[k].phase = "resolved"]_vars

\* C10: under FairSocket every destroy() call resolves true (the caller makes
\* finitely many calls, so from some point on no call is pending); and a
\* destroy() called by the caller when this._ws is null resolves true in the
\* same step and changes no field of the instance.
C10_DestroyAlwaysResolves ==
    /\ <>[](\A d \in DOMAIN destroys : destroys[d].phase = "true")
    /\ [][(ws = 0 /\ Len(destroys') = Len(destroys) + 1
              /\ destroys'[Len(destroys')].by = 0)
            => /\ destroys'[Len(destroys')].phase = "true"
               /\ UNCHANGED <<started, ws, socks, heartbeat, intervals, sessionId,
                              lastSequence, reconnecting, retries, lastPing,
                              lastACK, persisted>>]_vars

\* The sockets destroy() has been called on
DestroyedSockets == { destroys[d].sock : d \in DOMAIN destroys } \ {0}

\* The step is a call of destroy() on a connection that is open or connecting
DestroysActive ==
    /\ Len(destroys') = Len(destroys) + 1
    /\ destroys'[Len(destroys')].was \in {"OPEN", "CONNECTING"}

\* The step is an event of socket s (its readyState or what it sent changes)
EventOf(s) == socks'[s] # socks[s]

\* C11: a destroy() call on a connection that is open or connecting clears the
\* stored heartbeat timer and the handle, calls close(1000) on the socket and
\* sets this._ws to null; from then on the socket has no open, message or error
\* handler, and a later event of it settles no start(), sends nothing, and
\* changes no timer and no timestamp, and no session field unless it is the
\* close a reconnect() was waiting for.
C11_DestroyCancelsConnection ==
    /\ [](\A d \in DOMAIN destroys :
            destroys[d].was \in {"OPEN", "CONNECTING"} =>
               LET sock == socks[destroys[d].sock]
               IN /\ sock.closeCode = 1000
                  /\ sock.readyState \in {"CLOSING", "CLOSED"}
                  /\ sock.onopen = 0 /\ sock.onerror = 0 /\ ~sock.onmessage
                  /\ ws # destroys[d].sock)
    /\ [][/\ DestroysActive =>
               /\ ws' = 0 /\ ws # 0
               /\ destroys'[Len(destroys')].sock = ws
               /\ heartbeat' = 0
               /\ \A i \in intervals' : i.id # heartbeat
               /\ starts' = starts
               /\ <<sessionId', lastSequence', persisted'>> = <<sessionId, lastSequence, persisted>>
           /\ \A s \in DestroyedSockets :
                EventOf(s) =>
                   /\ starts' = starts
                   /\ socks'[s].sent = socks[s].sent
                   /\ <<heartbeat', intervals', lastPing', lastACK'>>
                         = <<heartbeat, intervals, lastPing, lastACK>>
                   /\ (socks[s].onclose.h = "destroy"
                         /\ destroys[socks[s].onclose.d].by = 0)
                        => <<sessionId', lastSequence', persisted', retries', reconnecting'>>
                             = <<sessionId, lastSequence, persisted, retries, reconnecting>>]_vars

\* A destroy() of an open connection with a running heartbeat timer has
\* completed: the socket it closed has had its close (and error) event
C11_Witness ==
    \E d \in DOMAIN destroys :
        /\ destroys[d].was = "OPEN"
        /\ destroys[d].timer # 0
        /\ destroys[d].phase = "true"
        /\ socks[destroys[d].sock].readyState = "CLOSED"

\* C12: when destroy() was called on a socket that was still connecting and
\* the close it waited for has completed, the start() call that created the
\* socket, once past its load, has been rejected (it is not pending).
C12_DestroyRejectsPendingStart ==
    \A d \in DOMAIN destroys, k \in DOMAIN starts :
        ( /\ destroys[d].was = "CONNECTING"
          /\ destroys[d].phase = "true"
          /\ starts[k].sock = destroys[d].sock
          /\ starts[k].phase # "loading" )
        => starts[k].phase = "rejected"

\* A reconnect() call has been entered and has neither given up nor seen its
\* start() attempt settle
ReconnectInProgress ==
    \E r \in DOMAIN reconns : reconns[r].phase \in {"destroying", "backoff", "starting"}

\* C13: the in-flight flag is set exactly while a reconnect() call is in
\* progress, and a reconnect() call made meanwhile returns false at once:
\* it calls neither destroy() nor start() and changes no field of the
\* instance (socket, session, persisted session, counter, flag, timers).
C13_ConcurrentReconnectIsNoop ==
    /\ [](reconnecting <=> ReconnectInProgress)
    /\ [][(Len(reconns') = Len(reconns) + 1 /\ ReconnectInProgress)
            => /\ reconns'[Len(reconns')].phase = "noop"
               /\ \A r \in DOMAIN reconns : reconns'[r] = reconns[r]
               /\ UNCHANGED <<started, ws, socks, heartbeat, intervals,
                              sessionId, lastSequence, persisted, reconnecting,
                              retries, lastPing, lastACK, starts, destroys>>]_vars

\* A reconnect() call was made while another was in progress
C13_Witness ==
    \E r \in DOMAIN reconns :
        /\ reconns[r].phase = "noop"
        /\ \E q \in 1..(r - 1) : reconns[q].phase \in {"destroying", "backoff", "starting"}

\* The step in which reconnect() call r goes on after its `await
\* this.destroy()`
PassesDestroy(r) ==
    reconns[r].phase = "destroying" /\ reconns'[r].phase # "destroying"

\* The step is the entry of a reconnect() call that the guard lets through
EntersReconnect ==
    /\ Len(reconns') = Len(reconns) + 1
    /\ reconns'[Len(reconns')].phase # "noop"

\* C14: a reconnect() call that the guard lets through calls destroy() on
\* entry (this._ws becomes null, an open or connecting socket gets
\* close(1000)) without touching the session; when it goes on after the
\* destroy, reconnect(true) leaves session id and last sequence absent and the
\* persisted session cleared, and reconnect(false) that schedules a start()
\* leaves session id, last sequence and persisted session as they were.
C14_ReconnectClearsOnlyOnRequest ==
    [][/\ EntersReconnect =>
            /\ Len(destroys') = Len(destroys) + 1
            /\ destroys'[Len(destroys')].by = Len(reconns')
            /\ ws' = 0
            /\ (ws # 0 /\ ShouldClose(socks[ws].readyState))
                  => socks'[ws].closeCode = 1000
            /\ <<sessionId', lastSequence', persisted'>>
                  = <<sessionId, lastSequence, persisted>>
       /\ \A r \in DOMAIN reconns :
            PassesDestroy(r) =>
               /\ reconns[r].clear =>
                     /\ sessionId' = Null
                     /\ lastSequence' = NoNumber
                     /\ persisted' = NoSession
               /\ (~reconns[r].clear /\ reconns'[r].phase = "backoff") =>
                     <<sessionId', lastSequence', persisted'>>
                        = <<sessionId, lastSequence, persisted>>]_vars

\* reconnect(true), called with a session loaded from the store, has gone on
\* after its destroy and scheduled a start()
C14_Witness ==
    \E r \in DOMAIN reconns :
        /\ reconns[r].clear
        /\ reconns[r].sid # Null
        /\ reconns[r].phase = "backoff"
        /\ sessionId = Null

\* The delays the backoff policy lists for attempts 0, 1, 2, ...
C15_Delays == <<1000, 2000, 4000, 8000, 16000, 30000, 30000, 30000>>

\* C15: the delay computed for counter value n is the n-th listed delay; a
\* reconnect() call that reads counter value n below the limit reads the
\* value the counter had when it was called and sets a timer of exactly
\* Backoff(n) ms; start() is invoked for the call by that timer only, once,
\* and not before the delay has elapsed.
C15_BackoffDelay ==
    /\ [](\A n \in 0..(Len(C15_Delays) - 1) : Backoff(n) = C15_Delays[n + 1])
    /\ [](\A k \in DOMAIN starts :
            starts[k].by # 0 =>
               /\ reconns[starts[k].by].phase \in {"starting", "true", "rejected"}
               /\ \A j \in DOMAIN starts : starts[j].by = starts[k].by => j = k)
    /\ [][\A r \in DOMAIN reconns :
            /\ PassesDestroy(r) =>
                  /\ reconns'[r].n = reconns[r].n0
                  /\ reconns'[r].n = retries
                  /\ (retries < MaxRetriesOf(settings)) <=> (reconns'[r].phase = "backoff")
                  /\ reconns'[r].phase = "backoff" =>
                        /\ reconns'[r].delay = C15_Delays[retries + 1]
                        /\ reconns'[r].due = now + reconns'[r].delay
                        /\ starts' = starts
            /\ (reconns[r].phase = "backoff" /\ reconns'[r].phase # "backoff") =>
                  /\ now' >= reconns[r].due
                  /\ reconns'[r].phase = "starting"
                  /\ Len(starts') = Len(starts) + 1
                  /\ starts'[Len(starts')].by = r]_vars

\* A reconnect() call read counter value 0 below the limit and its start()
\* has been invoked by the timer, 1000 ms after the timer was set
C15_Witness ==
    \E r \in DOMAIN reconns, k \in DOMAIN starts :
        /\ reconns[r].n = 0
        /\ reconns[r].delay = 1000
        /\ reconns[r].phase = "starting"
        /\ starts[k].by = r
        /\ now = reconns[r].due

\* C16: the retry limit is 5 when none is configured; a reconnect() call made
\* with the counter at or above the limit, when it goes on after its destroy,
\* returns false in that step: no start() is invoked and no timer set for it
\* then or later, the persisted session is cleared and the in-flight flag is
\* released; and only such a call returns false after passing the guard.
C16_GivesUpAtLimit ==
    /\ [](MaxRetriesOf(DefaultSettings) = 5)
    /\ [](\A r \in DOMAIN reconns :
            reconns[r].phase = "false" =>
               /\ reconns[r].n0 >= MaxRetriesOf(settings)
               /\ \A k \in DOMAIN starts : starts[k].by # r)
    /\ [][\A r \in DOMAIN reconns :
            /\ (PassesDestroy(r) /\ reconns[r].n0 >= MaxRetriesOf(settings)) =>
                  /\ reconns'[r].phase = "false"
                  /\ starts' = starts
                  /\ Len(socks') = Len(socks) /\ ws' = ws
                  /\ persisted' = NoSession
                  /\ ~reconnecting'
            /\ reconns[r].phase = "false" => reconns'[r] = reconns[r]]_vars

\* A reconnect() call made with a session loaded from the store and the
\* counter at the limit has given up: the persisted session is gone
C16_Witness ==
    \E r \in DOMAIN reconns :
        /\ reconns[r].phase = "false"
        /\ reconns[r].sid # Null
        /\ reconns[r].n0 = MaxRetriesOf(settings)
        /\ persisted = NoSession
        /\ ~reconnecting

\* C17: when a reconnect() call gives up at the retry limit, the session is
\* absent afterwards, in memory (session id, last sequence) and in the store.
C17_GiveUpClearsSession ==
    [][\A r \in DOMAIN reconns :
          (reconns[r].phase # "false" /\ reconns'[r].phase = "false") =>
             /\ sessionId' = Null
             /\ lastSequence' = NoNumber
             /\ persisted' = NoSession]_vars

\* C18: no start() is invoked for a reconnect() call that gave up; and a
\* reconnect() call made after an earlier call gave up, when it goes on after
\* its destroy, schedules a start() (it does not give up in its turn).
C18_ReconnectAfterGiveUpAttempts ==
    /\ [](\A k \in DOMAIN starts :
            starts[k].by # 0 => reconns[starts[k].by].phase # "false")
    /\ [][\A r \in DOMAIN reconns :
            (PassesDestroy(r) /\ \E q \in 1..(r - 1) : reconns[q].phase = "false")
               => reconns'[r].phase = "backoff"]_vars

\* The reconnect() calls that have read and incremented the counter after the
\* last call whose start() succeeded
CountedSinceSuccess ==
    LET done == { r \in DOMAIN reconns : reconns[r].phase = "true" }
    IN { r \in DOMAIN reconns :
            /\ reconns[r].n # NoNumber
            /\ reconns[r].phase # "true"
            /\ \A q \in done : q < r }

\* C19: the counter is 0 until a reconnect() call has passed the guard; it
\* changes only by one increment per such call, made when the call goes on
\* after its destroy, and by the reset to 0 in the step in which the start()
\* of a reconnect() call succeeds; so it always equals the number of calls
\* counted since the last success.
C19_AttemptCounter ==
    /\ [](retries = Cardinality(CountedSinceSuccess))
    /\ []((\A r \in DOMAIN reconns : reconns[r].phase = "noop") => retries = 0)
    /\ [][/\ \A r \in DOMAIN reconns :
               /\ PassesDestroy(r) =>
                     (retries' = retries + 1 /\ reconns[r].n = NoNumber)
               /\ (reconns[r].phase # "true" /\ reconns'[r].phase = "true") =>
                     (retries' = 0 /\ reconns[r].phase = "starting")
           /\ retries' # retries =>
                 \E q \in DOMAIN reconns :
                     \/ PassesDestroy(q)
                     \/ reconns[q].phase = "starting" /\ reconns'[q].phase = "true"
           /\ (Len(reconns') > Len(reconns)) => retries' = retries]_vars

\* The start() of a reconnect() call that had raised the counter to 1 has
\* succeeded, and the counter is 0 again
C19_Witness ==
    \E r \in DOMAIN reconns :
        /\ reconns[r].n = 0
        /\ reconns[r].phase = "true"
        /\ retries = 0

\* The frames with opcode op the instance has sent, over all its sockets
Sent(op, S) ==
    { <<s, i>> \in (DOMAIN S) \X (1..(MaxFrames + MaxBeats + MaxPresences + 1)) :
         i \in DOMAIN S[s].sent /\ S[s].sent[i].op = op }

\* The step is the handling of a Hello frame
HandlesHello ==
    /\ Len(delivered') = Len(delivered) + 1
    /\ delivered'[Len(delivered')].frame.op = "Hello"

Fired(i) ==
    /\ i \in intervals
    /\ i \notin intervals'
    /\ [i EXCEPT !.next = @ + i.every] \in intervals'

\* The socket on which the Hello frame that started timer i arrived
HelloSocket(i) == delivered[i.hello].sock

\* C21: after a Hello with interval X and while the connection it arrived on
\* stays connected, every elapse of X ms sends a Heartbeat frame on that
\* connection, the frame carries the last sequence number known when it is
\* sent, and the last-ping baseline becomes the current time.
C21_HeartbeatEveryInterval ==
    [][\A i \in intervals :
          (Fired(i) /\ socks[HelloSocket(i)].readyState = "OPEN") =>
              /\ lastPing' = now'
              /\ socks'[HelloSocket(i)].sent =
                     Append(socks[HelloSocket(i)].sent,
                            [op |-> "Heartbeat", d |-> lastSequence])]_vars

\* The message event of this step: its socket and its frame
Received == delivered'[Len(delivered')]

\* _handleMessage runs in this step on a frame with opcode op
Handles(op) ==
    /\ Len(delivered') = Len(delivered) + 1
    /\ Received.frame.op = op

\* reconnect(clear) is called in this step by _handleMessage
Reconnects(clear) ==
    /\ Len(reconns') = Len(reconns) + 1
    /\ reconns'[Len(reconns')].from = Len(delivered')
    /\ reconns'[Len(reconns')].clear = clear

\* The Resume frame of the session the instance knows
ResumeFrame ==
    [op |-> "Resume", d |-> [session_id |-> sessionId, seq |-> lastSequence]]

ReconnectFrameCalls ==
    { r \in DOMAIN reconns :
        /\ reconns[r].from # 0
        /\ delivered[reconns[r].from].frame.op = "Reconnect"
        /\ reconns[r].phase # "noop"
        /\ reconns[r].sid # Null }

\* The sockets the start() of reconnect() call r created and on which a Hello
\* frame has been handled
GreetedSockets(r) ==
    { s \in DOMAIN socks :
        /\ \E k \in DOMAIN starts : starts[k].by = r /\ starts[k].sock = s
        /\ \E i \in DOMAIN delivered :
              delivered[i].sock = s /\ delivered[i].frame.op = "Hello" }

\* C23: after a Reconnect frame the session that was known is resumed on the
\* new connection: once the new connection has handled its Hello, a Resume
\* frame with the preserved session id has been sent on it.
C23_ReconnectFrameResumes ==
    \A r \in ReconnectFrameCalls :
        \A s \in GreetedSockets(r) :
            \E i \in DOMAIN socks[s].sent :
                /\ socks[s].sent[i].op = "Resume"
                /\ socks[s].sent[i].d.session_id = reconns[r].sid

\* The sessionStore.save() calls of this step, in order
Saves == SubSeq(saved', Len(saved) + 1, Len(saved'))

\* _handleMessage runs in this step on a frame that carries a sequence number
HandlesSequenced ==
    /\ Len(delivered') = Len(delivered) + 1
    /\ Parses(Received.frame)
    /\ Received.frame.s # NoNumber

\* The frame of this step is the session-ready signal
SessionReady ==
    Received.frame.t = "READY" /\ Received.frame.session_id # Null

\* C24: after a handled frame that carries a sequence number s the in-memory
\* last sequence is s; when a session id is known as the frame arrives, save
\* is called with that session id and s for this very frame, once, and that
\* is what the store then holds; when none is known the sequence is not
\* saved and the store is left alone.  (The session-ready frame makes the
\* one further save of C25, after this one.)
C24_SequenceSavedPerFrame ==
    [][HandlesSequenced =>
          /\ lastSequence' = Received.frame.s
          /\ \A i \in DOMAIN Saves : Saves[i].at = Len(delivered')
          /\ IF sessionId # Null /\ settings.store
             THEN /\ Len(Saves) = (IF SessionReady THEN 2 ELSE 1)
                  /\ Saves[1].data = [sessionId |-> sessionId, seq |-> Received.frame.s]
                  /\ ~SessionReady => persisted' = Saves[1].data
             ELSE ~SessionReady => Saves = <<>> /\ persisted' = persisted]_vars

\* A frame with sequence number 3 arrived while session "sid0" was known and
\* its sequence number was saved
C24_Witness ==
    /\ Len(delivered) >= 1
    /\ delivered[1].frame.s = 3
    /\ lastSequence = 3
    /\ Len(saved) >= 1
    /\ saved[1] = [data |-> [sessionId |-> "sid0", seq |-> 3], at |-> 1]

\* The handler invocations of this step, in order
Invocations == SubSeq(invoked', Len(invoked) + 1, Len(invoked'))

\* C25: on the session-ready frame the new session id is in memory and, with
\* the last sequence, in the store before the handler runs (the handler finds
\* both); on every Dispatch frame the handler registered for the event name
\* of the frame, if there is one, is invoked exactly once with the data of
\* the frame, and no other handler is invoked.
C25_ReadyCapturedThenDispatched ==
    [][Handles("Dispatch") =>
          LET frame == Received.frame
              session == [sessionId |-> frame.session_id, seq |-> lastSequence']
          IN /\ SessionReady =>
                   /\ sessionId' = frame.session_id
                   /\ settings.store =>
                         /\ persisted' = session
                         /\ Saves[Len(Saves)].data = session
                   /\ \A i \in DOMAIN Invocations :
                         /\ Invocations[i].sid = frame.session_id
                         /\ settings.store => Invocations[i].stored = session
             /\ IF events[frame.t] = Null
                THEN Invocations = <<>>
                ELSE /\ Len(Invocations) = 1
                     /\ Invocations[1].handler = events[frame.t]
                     /\ Invocations[1].event = frame.t
                     /\ Invocations[1].d = frame.d
                     /\ Invocations[1].at = Len(delivered')]_vars

\* The handler of READY was invoked for a session-ready frame and found the
\* new session id in memory and in the store
C25_Witness ==
    /\ settings.store
    /\ Len(invoked) = 1
    /\ invoked[1].event = "READY"
    /\ invoked[1].sid = "sid1"
    /\ invoked[1].stored = [sessionId |-> "sid1", seq |-> 2]
    /\ events["MESSAGE_CREATE"] # Null

\* What log.warn and log.fail print in this step, in order
Logs == SubSeq(logged', Len(logged) + 1, Len(logged'))

\* The handler _handleMessage calls in this step throws
HandlerThrows ==
    /\ Handles("Dispatch")
    /\ events[Received.frame.t] # Null
    /\ Throws(events[Received.frame.t])

\* A handler has thrown on a frame of socket s
ThrewOn(s) ==
    \E j \in DOMAIN invoked :
        Throws(invoked[j].handler) /\ delivered[invoked[j].at].sock = s

\* C26: an exception a handler throws is caught and logged; the socket, its
\* handlers, the heartbeat timer, the reconnect state and the calls in flight
\* are as they were, the session is what the frame itself made it, and a
\* frame that arrives later on the same socket is handled and dispatched.
C26_HandlerExceptionCaught ==
    [][/\ HandlerThrows =>
            /\ Logs = <<"HANDLER_ERROR">>
            /\ socks' = socks /\ ws' = ws
            /\ socks'[Received.sock].onmessage
            /\ heartbeat' = heartbeat /\ intervals' = intervals
            /\ reconnecting' = reconnecting /\ retries' = retries
            /\ starts' = starts /\ destroys' = destroys /\ reconns' = reconns
            /\ events' = events
            /\ lastSequence' = Received.frame.s
            /\ sessionId' = (IF SessionReady THEN Received.frame.session_id
                                             ELSE sessionId)
       /\ (Handles("Dispatch") /\ ThrewOn(Received.sock)
              /\ events[Received.frame.t] # Null) =>
            /\ Len(Invocations) = 1
            /\ Invocations[1].handler = events[Received.frame.t]]_vars

\* A handler threw on the first frame of a socket and the handler of the
\* second frame of that socket was invoked
C26_Witness ==
    /\ Len(invoked) = 2
    /\ Throws(invoked[1].handler)
    /\ invoked[1].at = 1
    /\ invoked[2].at = 2
    /\ ~Throws(invoked[2].handler)
    /\ delivered[1].sock = delivered[2].sock
    /\ logged = <<"HANDLER_ERROR">>

\* listen() is called in this step
Listens == Len(listened') = Len(listened) + 1

\* The listen() call of this step: event, handler, and the handler the event
\* had before
Listened == listened'[Len(listened')]

\* C27: an event name has at most one handler; a listen() for an event name
\* that already has a handler produces a warning, and from then on the new
\* handler is the one of that event name.
C27_ReplacedHandlerWarns ==
    [][Listens =>
          /\ events' = [events EXCEPT ![Listened.event] = Listened.handler]
          /\ Listened.had = events[Listened.event]
          /\ Logs = (IF Listened.had # Null THEN <<"LISTENER_REPLACED">> ELSE <<>>)]_vars

\* Socket.ping()
ping ==
    LET delta == lastACK - lastPing
    IN IF delta >= 0 THEN delta ELSE 0

\* C28: ping() is never negative; when a HeartbeatAck has been recorded after
\* the most recent ping baseline it is lastACK - lastPing, and when no ack has
\* followed the latest ping it is 0.
C28_Ping ==
    /\ ping >= 0
    /\ acked => ping = lastACK - lastPing
    /\ ~acked => ping = 0

\* The message event of this step carries data that does not parse
DropsData ==
    /\ Len(delivered') = Len(delivered) + 1
    /\ Received.frame.op = Unparseable

\* Data that did not parse has arrived on socket s
DroppedOn(s) ==
    \E j \in DOMAIN delivered :
        delivered[j].sock = s /\ delivered[j].frame.op = Unparseable

\* C29: data that cannot be parsed is logged and dropped: last sequence,
\* session id, stored session, heartbeat timer, sockets and reconnect state
\* are unchanged and no handler is invoked; a frame that arrives later on the
\* same socket is processed.
C29_UnparseableDropped ==
    [][/\ DropsData =>
            /\ Logs = <<"JSON_INVALID">>
            /\ lastSequence' = lastSequence /\ sessionId' = sessionId
            /\ persisted' = persisted /\ saved' = saved
            /\ heartbeat' = heartbeat /\ intervals' = intervals
            /\ lastPing' = lastPing /\ lastACK' = lastACK
            /\ socks' = socks /\ ws' = ws
            /\ reconnecting' = reconnecting /\ retries' = retries
            /\ starts' = starts /\ destroys' = destroys /\ reconns' = reconns
            /\ invoked' = invoked /\ events' = events
       /\ (HandlesSequenced /\ DroppedOn(Received.sock)) =>
            lastSequence' = Received.frame.s
       /\ (Handles("Dispatch") /\ DroppedOn(Received.sock)
              /\ events[Received.frame.t] # Null) =>
            Len(Invocations) = 1]_vars

\* Data that did not parse was dropped and the frame after it, on the same
\* socket, was handled and dispatched
C29_Witness ==
    /\ Len(delivered) = 2
    /\ delivered[1].frame.op = Unparseable
    /\ delivered[2].sock = delivered[1].sock
    /\ delivered[2].frame.s = 3
    /\ lastSequence = 3
    /\ Len(invoked) = 1
    /\ invoked[1].at = 2
    /\ logged = <<"JSON_INVALID">>

\* The close event of socket s is dispatched in this step and destroy() did
\* not cause it: no destroy() call has installed its own onclose on s
ClosesUndestroyed(s) ==
    /\ socks[s].readyState # "CLOSED"
    /\ socks'[s].readyState = "CLOSED"
    /\ socks[s].onclose.h # "destroy"

\* The error event of the same step rejects the promise of a start() call
ErrorRejects ==
    \E k \in DOMAIN starts :
        starts[k].phase = "pending" /\ starts'[k].phase = "rejected"

\* C30: a close event that destroy() did not cause writes a log entry and
\* nothing else: no reconnect(), start() or destroy() is called, the session,
\* the stored session and the attempt counter are unchanged, and so is the
\* flag of the reconnect in flight (when the connection failed, the error
\* event that precedes the close rejects start(), which ends the reconnect
\* that awaited it: that is not the close event's doing).
C30_CloseOnlyLogs ==
    [][\A s \in DOMAIN socks :
          ClosesUndestroyed(s) =>
              /\ Len(reconns') = Len(reconns)
              /\ Len(starts') = Len(starts)
              /\ Len(destroys') = Len(destroys)
              /\ sessionId' = sessionId /\ lastSequence' = lastSequence
              /\ persisted' = persisted
              /\ retries' = retries
              /\ ws' = ws /\ heartbeat' = heartbeat /\ intervals' = intervals
              /\ ~ErrorRejects => reconnecting' = reconnecting /\ reconns' = reconns
              /\ \A i \in DOMAIN Logs : Logs[i] \in {"CLOSED", "ERROR"}
              /\ (socks[s].onclose.h = "log" /\ settings.warns) =>
                     Logs[Len(Logs)] = "CLOSED"]_vars

\* The gateway closed an open connection while a reconnect() was in flight:
\* the close was logged and the reconnect is where it was
C30_Witness ==
    /\ logged = <<"CLOSED">>
    /\ reconnecting
    /\ \E s \in DOMAIN socks :
          /\ socks[s].readyState = "CLOSED"
          /\ socks[s].onclose.h = "log"
          /\ socks[s].closeCode = 0


\* ---------------------------------------------------------------------------
\* C31: presence() called while _ws is null (before start(), or after a
\* destroy() that took the socket away) throws, with NO_SOCKET printed, and
\* writes nothing on any socket.
C31_PresenceWithoutSocketThrows ==
    [][(Len(presences') = Len(presences) + 1 /\ ws = 0)
          => /\ presences'[Len(presences')].threw
             /\ logged' = Append(logged, "NO_SOCKET")
             /\ socks' = socks]_vars

\* presence() threw on an instance whose socket a destroy() had taken away
C31_Witness ==
    \E p \in DOMAIN presences :
        /\ presences[p].sock = 0
        /\ presences[p].threw
        /\ presences[p].destroyed > 0
        /\ socks # <<>>
        /\ \A s \in DOMAIN socks : socks[s].sent = <<>>

\* ---------------------------------------------------------------------------
\* C32: a job is queued in, and run from, the bucket of its own (method,
\* route template) pair and no other, whatever its path arguments; a bucket
\* exists exactly when a request was made for its pair; and a bucket that
\* exists is never removed.
C32_OneBucketPerPair ==
    /\ [](\A j \in JobIds, key \in BucketKeys :
            LET held == IF HasBucket(key) THEN buckets[key].queue ELSE <<>>
                kept == \E n \in 1..MaxJobs :
                           \/ n \in DOMAIN held /\ held[n] = j
                           \/ n \in DOMAIN startLog[key] /\ startLog[key][n] = j
            IN kept <=> key = <<jobReq[j].method, jobReq[j].route>>)
    /\ [](\A key \in BucketKeys :
            HasBucket(key) <=> \E j \in JobIds :
                                  key = <<jobReq[j].method, jobReq[j].route>>)
    /\ [][\A key \in BucketKeys :
              HasBucket(key) => buckets'[key] # NoBucket]_vars

\* Two requests with the same pair and different path arguments went through
\* one bucket, and a request with another pair has a bucket of its own
C32_Witness ==
    \E i, j, k \in JobIds :
        LET key == KeyOf(i)
        IN /\ i < j
           /\ jobReq[i].args # jobReq[j].args
           /\ KeyOf(j) = key
           /\ startLog[key] = <<i>>
           /\ buckets[key].queue = <<j>>
           /\ KeyOf(k) # key
           /\ HasBucket(KeyOf(k))
           /\ startLog[KeyOf(k)] = <<k>>

\* ---------------------------------------------------------------------------
\* C33: the job of a request whose bucket did not exist yet begins executing
\* in the step that enqueues it: its fn() is called at once, no timer is set
\* for the bucket and no time passes.
C33_FirstJobRunsAtOnce ==
    [][\A req \in Requests :
          LET j == Len(jobReq) + 1
              key == getBucketKey(req.method, req.route)
          IN ( /\ Len(jobReq') = j
               /\ jobReq'[j] = req
               /\ ~HasBucket(key) )
             => /\ jobState'[j] = "fetching"
                /\ startLog'[key] = <<j>>
                /\ timers' = timers
                /\ now' = now]_vars

\* The first job of a new bucket is executing while another bucket is
\* throttled with a job waiting
C33_Witness ==
    \E i, j \in JobIds :
        /\ KeyOf(i) # KeyOf(j)
        /\ startLog[KeyOf(j)] = <<j>>
        /\ jobState[j] = "fetching"
        /\ jobState[i] = "queued"
        /\ buckets[KeyOf(i)].remaining = 0
        /\ now < buckets[KeyOf(i)].resetAt
        /\ i < j

C35_UptimeZeroAfterDestroy ==
    (\E d \in DOMAIN destroys : destroys[d].by = 0) => uptime = 0

\* ---------------------------------------------------------------------------
\* C36: set(key, value) replaces the value of a key that is present, whether
\* or not the dictionary is full; it adds a new key only below the limit;
\* the size never exceeds the limit.
C36_SetAddsOrUpdates ==
    [][called' # called =>
          LET key == called'[1]
              value == called'[2]
          IN /\ dictionary.map[key] # Null =>
                  dictionary' = [dictionary EXCEPT !.map[key] = value]
             /\ dictionary.map[key] = Null =>
                  dictionary' = IF dictRemaining(dictionary) > 0
                                THEN [dictionary EXCEPT !.map[key] = value]
                                ELSE dictionary
             /\ dictRemaining(dictionary') >= 0]_vars

\* ---------------------------------------------------------------------------
\* C37: from the moment a job's call has returned its response until the
\* bucket is run again, the bucket's remaining and resetAt are the ones the
\* response reported (resetAt in ms), 1 and 0 where a header is missing,
\* whatever the decrement had left; and no job starts in the step that
\* receives the response.
C37_BucketFollowsResponse ==
    /\ [](\A j \in JobIds :
            jobState[j] = "body" =>
                LET res == jobRes[j]
                    told == CASE res.remaining = Null -> 1
                              [] res.remaining = "0" -> 0
                              [] res.remaining = "1" -> 1
                    until == CASE res.reset = Null -> 0
                               [] res.reset = "2" -> 2000
                IN /\ buckets[KeyOf(j)].remaining = told
                   /\ buckets[KeyOf(j)].resetAt = until)
    /\ [][\A j \in JobIds :
              (jobState[j] = "fetching" /\ jobState'[j] = "body")
                  => startLog' = startLog /\ timers' = timers]_vars

\* The response of a bucket's second job reported one request left until a
\* later time, after the pop had counted the bucket down
C37_Witness ==
    \E i, j \in JobIds :
        /\ i < j
        /\ KeyOf(i) = KeyOf(j)
        /\ jobState[i] = "done"
        /\ jobState[j] = "body"
        /\ jobRes[j].remaining = "1"
        /\ jobRes[j].reset = "2"
        /\ buckets[KeyOf(j)].remaining = 1
        /\ buckets[KeyOf(j)].resetAt = 2000
        /\ now < 2000

\* ---------------------------------------------------------------------------
\* C38: no open or error event of the socket is lost to a start() that was
\* still loading the session: a start() call that has attached its handlers
\* and not settled is waiting for a socket that is still connecting, whose
\* open or error event is yet to come and will settle it.
C38_NoEventLostDuringLoad ==
    \A k \in DOMAIN starts :
        starts[k].phase = "pending" =>
            socks[starts[k].sock].readyState = "CONNECTING"

\* ---------------------------------------------------------------------------
\* C39: under FairSocket, whenever _reconnecting is set it is cleared again
\* later: no reconnect() call holds the flag for ever.
C39_ReconnectFlagCleared == reconnecting ~> ~reconnecting

\* ---------------------------------------------------------------------------
\* C40: at most one heartbeat timer is running, and a timer that is running
\* is the one _heartbeat refers to, so that destroy() cancels it.
C40_OneHeartbeatTimer ==
    /\ Cardinality(intervals) <= 1
    /\ \A i \in intervals : heartbeat = i.id

====
